---- MODULE Spec2Model ----
(***************************************************************************)
(* Model of lib/FreeRTOS-Plus-POSIX/source/FreeRTOS_POSIX_utils.c: the     *)
(* timespec arithmetic utilities and UTILS_strnlen.                        *)
(*                                                                         *)
(* The functions are pure: each takes its operands, and writes a result    *)
(* through an output pointer.  The state holds the operands of a call, the *)
(* caller's output storage and the value returned.  Init draws the         *)
(* operands, and each action is one call of one function.                  *)
(*                                                                         *)
(* Arithmetic is scaled so that it can be enumerated: a second has         *)
(* NANOSECONDS_PER_SECOND nanoseconds (1000000000 in the build), int64_t   *)
(* and time_t have INT64_BITS bits (64 in the build), TickType_t has       *)
(* TICKTYPE_BITS bits (32 in the build).  The order of the magnitudes is   *)
(* the build's: the nanosecond total of a timespec leaves int64_t long     *)
(* before its seconds leave time_t, and a tick count leaves TickType_t     *)
(* before it leaves uint64_t.  Signed overflow is undefined behaviour and  *)
(* is modelled as a free choice of the result within the type.             *)
(***************************************************************************)
EXTENDS Integers, Sequences, FiniteSets, TLC

\* ---------------------------------------------------------------- widths

\* Bits of int64_t, uint64_t and time_t (scaled from 64).
INT64_BITS == 5

\* Bits of TickType_t (scaled from 32).
TICKTYPE_BITS == 2

\* Nanoseconds in a second (scaled from 1000000000).
NANOSECONDS_PER_SECOND == 4

\* Kernel ticks in a second (scaled from the build's configTICK_RATE_HZ).
configTICK_RATE_HZ == 2

\* FreeRTOS_POSIX/time.h: NANOSECONDS_PER_SECOND / configTICK_RATE_HZ.
NANOSECONDS_PER_TICK == NANOSECONDS_PER_SECOND \div configTICK_RATE_HZ

\* Seconds operands are -MaxSec .. MaxSec and the two ends of time_t.
MaxSec == 2

INT64_MAX == 2 ^ (INT64_BITS - 1) - 1
INT64_MIN == -(2 ^ (INT64_BITS - 1))
Int64 == INT64_MIN .. INT64_MAX
InInt64(v) == v >= INT64_MIN /\ v <= INT64_MAX

\* The errno values the functions return (their numbers are those of
\* FreeRTOS_POSIX/errno.h).
EINVAL == 22
ETIMEDOUT == 116

\* ( uint64_t ) v: conversion to unsigned is modulo 2^64.
ToUint64(v) == v % (2 ^ INT64_BITS)

\* ( TickType_t ) v: conversion to the tick type is modulo its width.
ToTickType(v) == v % (2 ^ TICKTYPE_BITS)

\* C's integer division truncates toward zero; its remainder has the sign of
\* the dividend.  b > 0.
CDiv(a, b) == IF a >= 0 THEN a \div b ELSE -((-a) \div b)
CRem(a, b) == a - b * CDiv(a, b)

\* ------------------------------------------------------------- operands

NULL == [null |-> TRUE]

Timespec(s, n) == [tv_sec |-> s, tv_nsec |-> n]

\* tv_sec operands: around zero, and the ends of time_t.
Secs == (-MaxSec .. MaxSec) \cup {INT64_MIN, INT64_MAX}

\* tv_nsec operands: the normalized range 0 .. NANOSECONDS_PER_SECOND - 1 and
\* denormalized values on both sides of it.  Every long expression the code
\* forms from them lies within +-2 * NANOSECONDS_PER_SECOND, inside a 32-bit
\* long, so long arithmetic is exact here.
Nsecs == -1 .. (2 * NANOSECONDS_PER_SECOND - 1)

Timespecs == {Timespec(s, n) : s \in Secs, n \in Nsecs}
TimespecPtrs == Timespecs \cup {NULL}

\* The caller's output storage before a call.
ResultInit == Timespec(-1, -1)
TicksInit == 2 ^ TICKTYPE_BITS - 1

\* ------------------------------------------------------------ functions

\* bool UTILS_ValidateTimespec( pxTimespec )
UTILS_ValidateTimespec(pxTimespec) ==
    IF pxTimespec # NULL
    THEN pxTimespec.tv_nsec >= 0 /\ pxTimespec.tv_nsec < NANOSECONDS_PER_SECOND
    ELSE FALSE

\* UTILS_TimespecCompare with the test for an absent y made before the test
\* for both absent.
UTILS_TimespecCompare_AbsentYFirst(x, y) ==
    IF y = NULL THEN 1
    ELSE IF x = NULL THEN -1
    ELSE IF x.tv_sec > y.tv_sec THEN 1
    ELSE IF x.tv_sec < y.tv_sec THEN -1
    ELSE IF x.tv_nsec > y.tv_nsec THEN 1
    ELSE IF x.tv_nsec < y.tv_nsec THEN -1
    ELSE 0

\* int UTILS_TimespecCompare( x, y )
UTILS_TimespecCompare(x, y) ==
    IF x = NULL /\ y = NULL THEN 0
    ELSE IF y = NULL THEN 1
    ELSE IF x = NULL THEN -1
    ELSE IF x.tv_sec > y.tv_sec THEN 1
    ELSE IF x.tv_sec < y.tv_sec THEN -1
    ELSE IF x.tv_nsec > y.tv_nsec THEN 1
    ELSE IF x.tv_nsec < y.tv_nsec THEN -1
    ELSE 0

\* UTILS_NanosecondsToTimespec without the correction of a negative tv_nsec.
UTILS_NanosecondsToTimespec_NoCarry(llSource) ==
    Timespec(CDiv(llSource, NANOSECONDS_PER_SECOND),
             CRem(llSource, NANOSECONDS_PER_SECOND))

\* void UTILS_NanosecondsToTimespec( llSource, pxDestination ): the timespec
\* written to *pxDestination.
UTILS_NanosecondsToTimespec(llSource) ==
    LET sec0 == CDiv(llSource, NANOSECONDS_PER_SECOND)
        nsec0 == CRem(llSource, NANOSECONDS_PER_SECOND)
        lCarrySec == CDiv(nsec0, NANOSECONDS_PER_SECOND) + 1
    IN  IF nsec0 < 0
        THEN Timespec(sec0 - lCarrySec, nsec0 + lCarrySec * NANOSECONDS_PER_SECOND)
        ELSE Timespec(sec0, nsec0)

\* A signed operation on int64_t / time_t: exact when the result is
\* representable; otherwise the behaviour is undefined and the result is u,
\* the value the build happens to produce.
Add64(a, b, u) == IF InInt64(a + b) THEN a + b ELSE u
Sub64(a, b, u) == IF InInt64(a - b) THEN a - b ELSE u
Mul64(a, b, u) == IF InInt64(a * b) THEN a * b ELSE u

\* ( int64_t ) tv_sec * NANOSECONDS_PER_SECOND + ( int64_t ) tv_nsec
TotalNanoseconds64(ts, u) ==
    Add64(Mul64(ts.tv_sec, NANOSECONDS_PER_SECOND, u), ts.tv_nsec, u)

\* llResult64 of UTILS_TimespecAdd.
Sum64(x, y, u) == Add64(TotalNanoseconds64(x, u), TotalNanoseconds64(y, u), u)

\* Whether the 64-bit addition of UTILS_TimespecAdd overflows somewhere.
AddOverflows(x, y) ==
    \/ ~InInt64(x.tv_sec * NANOSECONDS_PER_SECOND)
    \/ ~InInt64(x.tv_sec * NANOSECONDS_PER_SECOND + x.tv_nsec)
    \/ ~InInt64(y.tv_sec * NANOSECONDS_PER_SECOND)
    \/ ~InInt64(y.tv_sec * NANOSECONDS_PER_SECOND + y.tv_nsec)
    \/ ~InInt64((x.tv_sec * NANOSECONDS_PER_SECOND + x.tv_nsec)
                + (y.tv_sec * NANOSECONDS_PER_SECOND + y.tv_nsec))

\* Whether the seconds subtraction of UTILS_TimespecSubtract overflows time_t.
SubtractOverflows(x, y) == ~InInt64(x.tv_sec - y.tv_sec)

\* UTILS_TimespecAdd returning llResult64 <= 0 for llResult64 < 0.
UTILS_TimespecAdd_FlagsZero(x, y, pxResult, absent, u) ==
    IF absent \/ x = NULL \/ y = NULL
    THEN [iStatus |-> -1, pxResult |-> pxResult]
    ELSE LET llResult64 == Sum64(x, y, u)
         IN  [iStatus |-> IF llResult64 <= 0 THEN 1 ELSE 0,
              pxResult |-> UTILS_NanosecondsToTimespec(llResult64)]

\* UTILS_TimespecAdd adding x's nanoseconds twice in place of y's.
UTILS_TimespecAdd_WrongNanoseconds(x, y, pxResult, absent, u) ==
    IF absent \/ x = NULL \/ y = NULL
    THEN [iStatus |-> -1, pxResult |-> pxResult]
    ELSE LET llResult64 == Sum64(x, Timespec(y.tv_sec, x.tv_nsec), u)
         IN  [iStatus |-> IF llResult64 < 0 THEN 1 ELSE 0,
              pxResult |-> UTILS_NanosecondsToTimespec(llResult64)]

\* int UTILS_TimespecAdd( x, y, pxResult ).  pxResult: the contents of the
\* output storage; absent: the output pointer is NULL.
UTILS_TimespecAdd(x, y, pxResult, absent, u) ==
    IF absent \/ x = NULL \/ y = NULL
    THEN [iStatus |-> -1, pxResult |-> pxResult]
    ELSE LET llResult64 == Sum64(x, y, u)
         IN  [iStatus |-> IF llResult64 < 0 THEN 1 ELSE 0,
              pxResult |-> UTILS_NanosecondsToTimespec(llResult64)]

\* UTILS_TimespecSubtract clearing *pxResult before it compares.
UTILS_TimespecSubtract_ClearsFirst(x, y, pxResult, absent, u) ==
    IF absent \/ x = NULL \/ y = NULL
    THEN [iStatus |-> -1, pxResult |-> pxResult]
    ELSE LET iCompareResult == UTILS_TimespecCompare(x, y)
             sec0 == Sub64(x.tv_sec, y.tv_sec, u)
             nsec0 == x.tv_nsec - y.tv_nsec
             borrow == nsec0 < 0
             sec1 == IF borrow THEN Sub64(sec0, 1, u) ELSE sec0
             nsec1 == IF borrow THEN nsec0 + NANOSECONDS_PER_SECOND ELSE nsec0
         IN  IF iCompareResult = -1
             THEN [iStatus |-> 1, pxResult |-> Timespec(0, 0)]
             ELSE IF iCompareResult = 0
             THEN [iStatus |-> 0, pxResult |-> Timespec(0, 0)]
             ELSE [iStatus |-> IF nsec1 < 0 THEN -1 ELSE 0,
                   pxResult |-> Timespec(sec1, nsec1)]

\* UTILS_TimespecSubtract borrowing a second without taking it from tv_sec.
UTILS_TimespecSubtract_NoDecrement(x, y, pxResult, absent, u) ==
    IF absent \/ x = NULL \/ y = NULL
    THEN [iStatus |-> -1, pxResult |-> pxResult]
    ELSE LET iCompareResult == UTILS_TimespecCompare(x, y)
             sec0 == Sub64(x.tv_sec, y.tv_sec, u)
             nsec0 == x.tv_nsec - y.tv_nsec
             borrow == nsec0 < 0
             nsec1 == IF borrow THEN nsec0 + NANOSECONDS_PER_SECOND ELSE nsec0
         IN  IF iCompareResult = -1
             THEN [iStatus |-> 1, pxResult |-> pxResult]
             ELSE IF iCompareResult = 0
             THEN [iStatus |-> 0, pxResult |-> Timespec(0, 0)]
             ELSE [iStatus |-> IF nsec1 < 0 THEN -1 ELSE 0,
                   pxResult |-> Timespec(sec0, nsec1)]

\* UTILS_TimespecSubtract treating equal seconds as equal times.
UTILS_TimespecSubtract_SecondsEqual(x, y, pxResult, absent, u) ==
    IF absent \/ x = NULL \/ y = NULL
    THEN [iStatus |-> -1, pxResult |-> pxResult]
    ELSE LET iCompareResult == UTILS_TimespecCompare(x, y)
             sec0 == Sub64(x.tv_sec, y.tv_sec, u)
             nsec0 == x.tv_nsec - y.tv_nsec
             borrow == nsec0 < 0
             sec1 == IF borrow THEN Sub64(sec0, 1, u) ELSE sec0
             nsec1 == IF borrow THEN nsec0 + NANOSECONDS_PER_SECOND ELSE nsec0
         IN  IF iCompareResult = -1
             THEN [iStatus |-> 1, pxResult |-> pxResult]
             ELSE IF iCompareResult = 0 \/ x.tv_sec = y.tv_sec
             THEN [iStatus |-> 0, pxResult |-> Timespec(0, 0)]
             ELSE [iStatus |-> IF nsec1 < 0 THEN -1 ELSE 0,
                   pxResult |-> Timespec(sec1, nsec1)]

\* int UTILS_TimespecSubtract( x, y, pxResult )
UTILS_TimespecSubtract(x, y, pxResult, absent, u) ==
    IF absent \/ x = NULL \/ y = NULL
    THEN [iStatus |-> -1, pxResult |-> pxResult]
    ELSE LET iCompareResult == UTILS_TimespecCompare(x, y)
             sec0 == Sub64(x.tv_sec, y.tv_sec, u)
             nsec0 == x.tv_nsec - y.tv_nsec
             borrow == nsec0 < 0
             sec1 == IF borrow THEN Sub64(sec0, 1, u) ELSE sec0
             nsec1 == IF borrow THEN nsec0 + NANOSECONDS_PER_SECOND ELSE nsec0
         IN  IF iCompareResult = -1
             THEN [iStatus |-> 1, pxResult |-> pxResult]
             ELSE IF iCompareResult = 0
             THEN [iStatus |-> 0, pxResult |-> Timespec(0, 0)]
             ELSE [iStatus |-> IF nsec1 < 0 THEN -1 ELSE 0,
                   pxResult |-> Timespec(sec1, nsec1)]

\* UTILS_TimespecToTicks without the rounding up of the nanoseconds.
UTILS_TimespecToTicks_RoundsDown(pxTimespec, pxResult, absent) ==
    IF pxTimespec = NULL \/ absent
    THEN [iStatus |-> EINVAL, pxResult |-> pxResult]
    ELSE IF ~UTILS_ValidateTimespec(pxTimespec)
    THEN [iStatus |-> EINVAL, pxResult |-> pxResult]
    ELSE LET ullSeconds == ToUint64(ToUint64(configTICK_RATE_HZ)
                                    * ToUint64(pxTimespec.tv_sec))
             lNanoseconds == CDiv(pxTimespec.tv_nsec, NANOSECONDS_PER_TICK)
             ullTotalTicks == ToUint64(ullSeconds + ToUint64(lNanoseconds))
         IN  [iStatus |-> 0, pxResult |-> ToTickType(ullTotalTicks)]

\* int UTILS_TimespecToTicks( pxTimespec, pxResult ).  pxResult: the contents
\* of the tick output storage.
UTILS_TimespecToTicks(pxTimespec, pxResult, absent) ==
    IF pxTimespec = NULL \/ absent
    THEN [iStatus |-> EINVAL, pxResult |-> pxResult]
    ELSE IF ~UTILS_ValidateTimespec(pxTimespec)
    THEN [iStatus |-> EINVAL, pxResult |-> pxResult]
    ELSE LET ullSeconds == ToUint64(ToUint64(configTICK_RATE_HZ)
                                    * ToUint64(pxTimespec.tv_sec))
             lNanoseconds == CDiv(pxTimespec.tv_nsec, NANOSECONDS_PER_TICK)
                             + (IF CRem(pxTimespec.tv_nsec, NANOSECONDS_PER_TICK) # 0
                                THEN 1 ELSE 0)
             ullTotalTicks == ToUint64(ullSeconds + ToUint64(lNanoseconds))
         IN  [iStatus |-> 0, pxResult |-> ToTickType(ullTotalTicks)]

\* UTILS_AbsoluteTimespecToDeltaTicks taking every nonzero status of the
\* subtraction for an error.
UTILS_AbsoluteTimespecToDeltaTicks_PastIsInvalid(pxAbsoluteTime, pxCurrentTime, pxResult, absent, u) ==
    IF pxAbsoluteTime = NULL \/ pxCurrentTime = NULL \/ absent
    THEN [iStatus |-> EINVAL, pxResult |-> pxResult]
    ELSE LET sub == UTILS_TimespecSubtract(pxAbsoluteTime, pxCurrentTime,
                                           Timespec(0, 0), FALSE, u)
             xDifference == sub.pxResult
         IN  IF sub.iStatus # 0
             THEN [iStatus |-> EINVAL, pxResult |-> pxResult]
             ELSE UTILS_TimespecToTicks(xDifference, pxResult, absent)

\* int UTILS_AbsoluteTimespecToDeltaTicks( pxAbsoluteTime, pxCurrentTime,
\* pxResult )
UTILS_AbsoluteTimespecToDeltaTicks(pxAbsoluteTime, pxCurrentTime, pxResult, absent, u) ==
    IF pxAbsoluteTime = NULL \/ pxCurrentTime = NULL \/ absent
    THEN [iStatus |-> EINVAL, pxResult |-> pxResult]
    ELSE LET sub == UTILS_TimespecSubtract(pxAbsoluteTime, pxCurrentTime,
                                           Timespec(0, 0), FALSE, u)
             xDifference == sub.pxResult
         IN  IF sub.iStatus = 1
             THEN [iStatus |-> ETIMEDOUT, pxResult |-> pxResult]
             ELSE IF sub.iStatus = -1
             THEN [iStatus |-> EINVAL, pxResult |-> pxResult]
             ELSE UTILS_TimespecToTicks(xDifference, pxResult, absent)

\* ---------------------------------------------------------------- state

VARIABLES
    x,             \* first timespec operand of the call (or NULL)
    y,             \* second timespec operand of the call (or NULL)
    llSource,      \* nanosecond operand of UTILS_NanosecondsToTimespec
    pxResult,      \* contents of the caller's timespec output storage
    pxTicks,       \* contents of the caller's TickType_t output storage
    resultAbsent,  \* the call passed NULL as its output pointer
    iStatus,       \* value the call returned
    op,            \* the call made, "none" before it
    pcString,      \* UTILS_strnlen: the buffer's bytes (or NULL)
    xMaxLength,    \* UTILS_strnlen: its bound
    xLength,       \* UTILS_strnlen: its counter
    reads,         \* UTILS_strnlen: the buffer indices it has read
    pc             \* UTILS_strnlen: where it stands

timeVars == <<x, y, llSource, pxResult, pxTicks, resultAbsent, iStatus, op>>
strVars == <<pcString, xMaxLength, xLength, reads, pc>>
vars == <<x, y, llSource, pxResult, pxTicks, resultAbsent, iStatus, op,
          pcString, xMaxLength, xLength, reads, pc>>

\* The value an overflowing signed operation of a call may yield: anything
\* of the type when the call overflows, immaterial otherwise.
Undefined(overflows) == IF overflows THEN Int64 ELSE {0}

TimeIdle ==
    /\ llSource = 0
    /\ pxResult = ResultInit
    /\ pxTicks = TicksInit
    /\ resultAbsent = FALSE
    /\ iStatus = 0
    /\ op = "none"

StrIdle ==
    /\ pcString = NULL
    /\ xMaxLength = 0
    /\ xLength = 0
    /\ reads = {}
    /\ pc = "idle"

Init ==
    /\ x \in TimespecPtrs
    /\ y \in TimespecPtrs
    /\ TimeIdle
    /\ StrIdle

\* --------------------------------------------------------------- actions
\* One call each, made from the state that holds its operands.  A function
\* of one timespec is called where the second operand is absent, the
\* function of a nanosecond count where both are.

ValidateTimespec ==
    /\ op = "none"
    /\ y = NULL
    /\ iStatus' = IF UTILS_ValidateTimespec(x) THEN 1 ELSE 0
    /\ op' = "ValidateTimespec"
    /\ UNCHANGED <<x, y, llSource, pxResult, pxTicks, resultAbsent>>
    /\ UNCHANGED strVars

TimespecCompare ==
    /\ op = "none"
    /\ iStatus' = UTILS_TimespecCompare(x, y)
    /\ op' = "TimespecCompare"
    /\ UNCHANGED <<x, y, llSource, pxResult, pxTicks, resultAbsent>>
    /\ UNCHANGED strVars

NanosecondsToTimespec ==
    /\ op = "none"
    /\ x = NULL /\ y = NULL
    /\ \E n \in Int64 :
        /\ llSource' = n
        /\ pxResult' = UTILS_NanosecondsToTimespec(n)
    /\ op' = "NanosecondsToTimespec"
    /\ UNCHANGED <<x, y, pxTicks, resultAbsent, iStatus>>
    /\ UNCHANGED strVars

TimespecToTicks ==
    /\ op = "none"
    /\ y = NULL
    /\ \E absent \in BOOLEAN :
        LET r == UTILS_TimespecToTicks(x, pxTicks, absent)
        IN  /\ resultAbsent' = absent
            /\ iStatus' = r.iStatus
            /\ pxTicks' = r.pxResult
    /\ op' = "TimespecToTicks"
    /\ UNCHANGED <<x, y, llSource, pxResult>>
    /\ UNCHANGED strVars

TimespecAdd ==
    /\ op = "none"
    /\ \E absent \in BOOLEAN :
       \E u \in Undefined(x # NULL /\ y # NULL /\ ~absent /\ AddOverflows(x, y)) :
        LET r == UTILS_TimespecAdd(x, y, pxResult, absent, u)
        IN  /\ resultAbsent' = absent
            /\ iStatus' = r.iStatus
            /\ pxResult' = r.pxResult
    /\ op' = "TimespecAdd"
    /\ UNCHANGED <<x, y, llSource, pxTicks>>
    /\ UNCHANGED strVars

TimespecSubtract ==
    /\ op = "none"
    /\ \E absent \in BOOLEAN :
       \E u \in Undefined(x # NULL /\ y # NULL /\ ~absent
                          /\ UTILS_TimespecCompare(x, y) = 1
                          /\ SubtractOverflows(x, y)) :
        LET r == UTILS_TimespecSubtract(x, y, pxResult, absent, u)
        IN  /\ resultAbsent' = absent
            /\ iStatus' = r.iStatus
            /\ pxResult' = r.pxResult
    /\ op' = "TimespecSubtract"
    /\ UNCHANGED <<x, y, llSource, pxTicks>>
    /\ UNCHANGED strVars

\* The caller subtracts y again from the sum UTILS_TimespecAdd( x, y, &s )
\* gave it: UTILS_TimespecSubtract( &s, y, &r ), r being fresh storage.
TimespecAddThenSubtract ==
    /\ op = "TimespecAdd"
    /\ ~resultAbsent
    /\ iStatus # -1
    /\ \E u \in Undefined(SubtractOverflows(pxResult, y)
                          /\ UTILS_TimespecCompare(pxResult, y) = 1) :
        LET r == UTILS_TimespecSubtract(pxResult, y, ResultInit, FALSE, u)
        IN  /\ iStatus' = r.iStatus
            /\ pxResult' = r.pxResult
    /\ op' = "TimespecAddThenSubtract"
    /\ UNCHANGED <<x, y, llSource, pxTicks, resultAbsent>>
    /\ UNCHANGED strVars

AbsoluteTimespecToDeltaTicks ==
    /\ op = "none"
    /\ \E absent \in BOOLEAN :
       \E u \in Undefined(x # NULL /\ y # NULL /\ ~absent
                          /\ UTILS_TimespecCompare(x, y) = 1
                          /\ SubtractOverflows(x, y)) :
        LET r == UTILS_AbsoluteTimespecToDeltaTicks(x, y, pxTicks, absent, u)
        IN  /\ resultAbsent' = absent
            /\ iStatus' = r.iStatus
            /\ pxTicks' = r.pxResult
    /\ op' = "AbsoluteTimespecToDeltaTicks"
    /\ UNCHANGED <<x, y, llSource, pxResult>>
    /\ UNCHANGED strVars

Next ==
    \/ ValidateTimespec
    \/ TimespecCompare
    \/ NanosecondsToTimespec
    \/ TimespecToTicks
    \/ TimespecAdd
    \/ TimespecSubtract
    \/ TimespecAddThenSubtract
    \/ AbsoluteTimespecToDeltaTicks

Spec == Init /\ [][Next]_vars

\* ---------------------------------------------------------- UTILS_strnlen

\* Longest buffer, in bytes.
MaxBuf == 3

\* A byte is the terminator 0 or another character.
Bytes == {0, 1}

\* The buffers pcString may point to: every byte sequence of at most MaxBuf
\* bytes.  The sequence is the whole object; index i of the code is element
\* i + 1.
String(b) == [bytes |-> b]
Buffers == {String(b) : b \in UNION {[1 .. n -> Bytes] : n \in 0 .. MaxBuf}}

HasTerminator(buf) == \E i \in 1 .. Len(buf.bytes) : buf.bytes[i] = 0

\* A call a caller may make: no buffer, a terminated string, or a buffer of
\* at least xMaxLength bytes.
ValidCall(buf, max) ==
    IF buf = NULL THEN TRUE ELSE (HasTerminator(buf) \/ Len(buf.bytes) >= max)

InitStrnlen ==
    /\ x = NULL
    /\ y = NULL
    /\ TimeIdle
    /\ pcString \in Buffers \cup {NULL}
    /\ xMaxLength \in 0 .. (MaxBuf + 1)
    /\ ValidCall(pcString, xMaxLength)
    /\ xLength = 0
    /\ reads = {}
    /\ pc = "call"

\* *pcCharPointer, pcCharPointer being pcString + xLength: the byte there, or
\* any byte when the pointer has left the buffer (undefined behaviour).
Deref(buf, i) == IF i + 1 <= Len(buf.bytes) THEN {buf.bytes[i + 1]} ELSE Bytes

\* xLength = 0; if( pcString != NULL )
strnlenEnter ==
    /\ pc = "call"
    /\ pc' = IF pcString # NULL THEN "while" ELSE "return"
    /\ UNCHANGED <<pcString, xMaxLength, xLength, reads>>
    /\ UNCHANGED timeVars

\* One evaluation of the while condition, left operand first, and the loop
\* body when it holds.
strnlenWhile ==
    /\ pc = "while"
    /\ \E c \in Deref(pcString, xLength) :
        /\ reads' = reads \cup {xLength}
        /\ IF c # 0 /\ xLength < xMaxLength
           THEN xLength' = xLength + 1 /\ pc' = "while"
           ELSE xLength' = xLength /\ pc' = "return"
    /\ UNCHANGED <<pcString, xMaxLength>>
    /\ UNCHANGED timeVars

\* return xLength;
strnlenReturn ==
    /\ pc = "return"
    /\ pc' = "done"
    /\ UNCHANGED <<pcString, xMaxLength, xLength, reads>>
    /\ UNCHANGED timeVars

NextStrnlen ==
    \/ strnlenEnter
    \/ strnlenWhile
    \/ strnlenReturn

SpecStrnlen == InitStrnlen /\ [][NextStrnlen]_vars

\* --------------------------------------------------------------- claims
\* The vocabulary of the claims, in mathematical integers.

\* ts is a normalized timespec.
IsNormalized(ts) == ts.tv_nsec >= 0 /\ ts.tv_nsec < NANOSECONDS_PER_SECOND

\* The nanoseconds ts stands for.
Total(ts) == ts.tv_sec * NANOSECONDS_PER_SECOND + ts.tv_nsec

\* The normalized timespec that stands for n nanoseconds.
Decompose(n) == Timespec(n \div NANOSECONDS_PER_SECOND, n % NANOSECONDS_PER_SECOND)

\* a is strictly earlier than b, seconds first.
Earlier(a, b) ==
    a.tv_sec < b.tv_sec \/ (a.tv_sec = b.tv_sec /\ a.tv_nsec < b.tv_nsec)

SameTime(a, b) == a.tv_sec = b.tv_sec /\ a.tv_nsec = b.tv_nsec

\* ceil(a / b), a >= 0, b > 0.
CeilDiv(a, b) == (a + b - 1) \div b

\* The call had its two timespec operands and its output pointer.
AllPresent == x # NULL /\ y # NULL /\ ~resultAbsent

\* C1: UTILS_AbsoluteTimespecToDeltaTicks with three non-absent arguments and
\* a target strictly earlier than the current time returns ETIMEDOUT (not
\* EINVAL, not 0) and does not write the caller's tick count.
C1_PastTargetTimesOut ==
    (op = "AbsoluteTimespecToDeltaTicks" /\ AllPresent /\ Earlier(x, y))
        => (iStatus = ETIMEDOUT /\ iStatus # EINVAL /\ iStatus # 0
            /\ pxTicks = TicksInit)

C1_Witness ==
    /\ op = "AbsoluteTimespecToDeltaTicks"
    /\ ~resultAbsent
    /\ x = Timespec(1, 0)
    /\ y = Timespec(2, 0)
    /\ iStatus = ETIMEDOUT

\* C2: UTILS_TimespecSubtract with non-absent x, y and out returns 1 and
\* leaves out unchanged when x is earlier than y, and returns 0 with out set
\* to {0, 0} when x and y are the same time.
C2_SubtractNotLater ==
    (op = "TimespecSubtract" /\ AllPresent)
        => /\ Earlier(x, y) => (iStatus = 1 /\ pxResult = ResultInit)
           /\ SameTime(x, y) => (iStatus = 0 /\ pxResult = Timespec(0, 0))

C2_Witness ==
    /\ op = "TimespecSubtract"
    /\ AllPresent
    /\ Earlier(x, y)
    /\ iStatus = 1
    /\ pxResult = ResultInit

\* The ticks of the claim C3: seconds * TICK_RATE_HZ + ceil(nanoseconds /
\* NANOSECONDS_PER_TICK).
ExactTicks(ts) ==
    ts.tv_sec * configTICK_RATE_HZ + CeilDiv(ts.tv_nsec, NANOSECONDS_PER_TICK)

C3_Case ==
    /\ op = "TimespecToTicks"
    /\ x # NULL
    /\ ~resultAbsent
    /\ IsNormalized(x)
    /\ x.tv_sec >= 0

\* C3 as stated: for every normalized timespec with non-negative seconds and
\* a non-absent output, UTILS_TimespecToTicks returns 0 and writes
\* seconds * TICK_RATE_HZ + ceil(nanoseconds / NANOSECONDS_PER_TICK).
C3_Stated == C3_Case => (iStatus = 0 /\ pxTicks = ExactTicks(x))

\* C3, amended: for every normalized timespec with non-negative seconds and a
\* non-absent output, UTILS_TimespecToTicks returns 0 and writes
\* seconds * TICK_RATE_HZ + ceil(nanoseconds / NANOSECONDS_PER_TICK) reduced
\* modulo 2^(bits of TickType_t), which is that sum whenever the sum fits the
\* tick type; the nanosecond term is rounded up, so {1, 0} gives TICK_RATE_HZ
\* ticks and {0, 1} gives 1.
C3_TicksModuloTickType ==
    C3_Case
        => /\ iStatus = 0
           /\ pxTicks = ExactTicks(x) % (2 ^ TICKTYPE_BITS)
           /\ ExactTicks(x) < 2 ^ TICKTYPE_BITS => pxTicks = ExactTicks(x)
           /\ x = Timespec(1, 0) => pxTicks = configTICK_RATE_HZ % (2 ^ TICKTYPE_BITS)
           /\ x = Timespec(0, 1) => pxTicks = 1

\* A conversion whose tick count does not fit TickType_t.
C3_Witness ==
    /\ C3_Case
    /\ iStatus = 0
    /\ x.tv_nsec > 0
    /\ ExactTicks(x) >= 2 ^ TICKTYPE_BITS
    /\ pxTicks = ExactTicks(x) % (2 ^ TICKTYPE_BITS)

\* What UTILS_TimespecToTicks writes for ts.
TicksOf(ts) == UTILS_TimespecToTicks(ts, TicksInit, FALSE).pxResult

C4_Case ==
    /\ op = "AbsoluteTimespecToDeltaTicks"
    /\ AllPresent
    /\ IsNormalized(x)
    /\ IsNormalized(y)
    /\ ~Earlier(x, y)

\* C4 as stated: for all normalized target and now with target not earlier
\* than now and a non-absent output, UTILS_AbsoluteTimespecToDeltaTicks
\* returns 0 and writes the tick count UTILS_TimespecToTicks gives for the
\* normalized difference target - now, 0 when they are equal.
C4_Stated ==
    C4_Case
        => /\ iStatus = 0
           /\ pxTicks = TicksOf(Decompose(Total(x) - Total(y)))
           /\ SameTime(x, y) => pxTicks = 0

\* C4, amended: the same, for target and now whose seconds difference
\* target.seconds - now.seconds is representable in time_t (as it is when
\* both are non-negative).
C4_DeltaTicksOfDifference ==
    (C4_Case /\ ~SubtractOverflows(x, y))
        => /\ iStatus = 0
           /\ pxTicks = TicksOf(Decompose(Total(x) - Total(y)))
           /\ SameTime(x, y) => pxTicks = 0

\* A difference that borrows a second: {1, 0} - {0, 1}.
C4_Witness ==
    /\ C4_Case
    /\ x = Timespec(1, 0)
    /\ y = Timespec(0, 1)
    /\ iStatus = 0
    /\ pxTicks = TicksOf(Timespec(0, NANOSECONDS_PER_SECOND - 1))

\* C5: for every signed 64-bit n, UTILS_NanosecondsToTimespec( n ) gives a
\* timespec with 0 <= nanoseconds < NANOSECONDS_PER_SECOND that stands for n;
\* -1 gives {-1, NANOSECONDS_PER_SECOND - 1}.
C5_NanosecondsDecomposed ==
    op = "NanosecondsToTimespec"
        => /\ IsNormalized(pxResult)
           /\ Total(pxResult) = llSource
           /\ llSource = -1 => pxResult = Timespec(-1, NANOSECONDS_PER_SECOND - 1)

C5_Witness ==
    /\ op = "NanosecondsToTimespec"
    /\ llSource = -1
    /\ pxResult = Timespec(-1, NANOSECONDS_PER_SECOND - 1)

\* The round trip UTILS_TimespecAdd( x, y, &s ), UTILS_TimespecSubtract( &s,
\* y, &r ) has run, on operands whose nanosecond totals and their sum stay
\* within int64_t.
C6_Case == op = "TimespecAddThenSubtract" /\ ~AddOverflows(x, y)

\* C6 as stated: for all timespecs x and y whose nanosecond totals and their
\* sum do not overflow int64_t, adding y to x and subtracting y from the sum
\* succeeds (returns 0) and gives x back, seconds and nanoseconds.
C6_Stated == C6_Case => (iStatus = 0 /\ pxResult = x)

\* C6, amended: the same, for normalized x and y with x.seconds >= 0.
C6_AddThenSubtractIsIdentity ==
    (C6_Case /\ IsNormalized(x) /\ IsNormalized(y) /\ x.tv_sec >= 0)
        => (iStatus = 0 /\ pxResult = x)

\* {1, N - 1} + {1, N - 2} carries a second, and the subtraction borrows it.
C6_Witness ==
    /\ C6_Case
    /\ x = Timespec(1, NANOSECONDS_PER_SECOND - 1)
    /\ y = Timespec(1, NANOSECONDS_PER_SECOND - 2)
    /\ iStatus = 0
    /\ pxResult = x

C7_Case == op = "TimespecSubtract" /\ AllPresent /\ iStatus = 0

C8_AddWritesSum ==
    op = "TimespecAdd"
        => /\ iStatus = -1 => ~AllPresent
           /\ (AllPresent /\ ~AddOverflows(x, y))
                => /\ pxResult = Decompose(Total(x) + Total(y))
                   /\ iStatus = IF Total(x) + Total(y) < 0 THEN 1 ELSE 0

\* A negative sum: {-1, 1} + {0, 0}.
C8_Witness ==
    /\ op = "TimespecAdd"
    /\ AllPresent
    /\ x = Timespec(-1, 1)
    /\ y = Timespec(0, 0)
    /\ iStatus = 1
    /\ pxResult = Timespec(-1, 1)

\* C9: UTILS_TimespecCompare is antisymmetric and reflexive, absent operands
\* included: Compare(x, y) = -Compare(y, x), Compare(x, x) = 0, and the
\* result is -1, 0 or 1.
C9_CompareAntisymmetric ==
    op = "TimespecCompare"
        => /\ iStatus \in {-1, 0, 1}
           /\ iStatus = -UTILS_TimespecCompare(y, x)
           /\ UTILS_TimespecCompare(x, x) = 0
           /\ UTILS_TimespecCompare(y, y) = 0

\* Only x absent: x compares below y.
C9_Witness ==
    /\ op = "TimespecCompare"
    /\ x = NULL
    /\ y # NULL
    /\ iStatus = -1

\* C10: UTILS_strnlen, given a buffer, never reads a byte of it at an index
\* >= xMaxLength; it is safe on a buffer of xMaxLength bytes that holds no
\* terminator, xMaxLength = 0 included.
C10_ReadsBelowMaxLength ==
    /\ \A i \in reads : i < xMaxLength
    /\ pcString # NULL => \A i \in reads : i < Len(pcString.bytes)
====
